---- MODULE Spec2Model ----
(***************************************************************************)
(* Transactional outbox and relay of beep-industries/message.              *)
(*                                                                         *)
(* Two durable stores carry outbox records:                                *)
(*   - the Postgres table outbox_messages, written by write_outbox_event   *)
(*     (infrastructure/outbox/writer.rs) inside the sqlx transaction of    *)
(*     the server / member repositories;                                   *)
(*   - the MongoDB collection outbox_messages, written by the message      *)
(*     repository and the message service and scanned by the relay         *)
(*     (infrastructure/rabbitmq/relay.rs).                                 *)
(* The relay publishes through RabbitMqPublisher (rabbitmq/publisher.rs).  *)
(***************************************************************************)
EXTENDS Integers, Sequences, FiniteSets, TLC

\* ---------------------------------------------------------------- bounds
MaxEvents  == 4      \* outbox ids (Uuid::new_v4 values) ever generated
MaxCalls   == 2      \* business / writer calls in one behaviour
MaxClock   == 2      \* largest value of Utc::now() the model distinguishes
MaxFaults  == 1      \* process stops and relay storage errors in one behaviour

BatchLimit == 2      \* documents one poll reads; stands for .limit(100)
MaxConns   == 3      \* connections Connection::connect opens in one behaviour
MaxItems   == 4      \* rows of the listed collection
MaxLimit   == 4      \* largest GetPaginated::limit a listing asks for
MaxPages   == 5      \* pages one listing reads
MaxForeign == 2      \* documents in outbox_messages the writer did not write

\* ------------------------------------------------------- program constants
Null       == 0      \* None::<DateTime<Utc>>, failed_at of a fresh record
PageCap    == 2      \* std::cmp::min(pagination.limit, 50); stands for 50

EventIds  == 1..MaxEvents
Servers   == {"s1"}
Users     == {"u1"}
Messages  == {"m1"}
FriendUsers == {"ua", "ub"}
RepoTasks == {"t1", "t2"}

VARIABLES
    servers,        \* Postgres table servers (set of server ids)
    members,        \* Postgres table server_members (set of <<server, user>>)
    pg_outbox,      \* Postgres table outbox_messages: id -> row
    messages,       \* Mongo collection messages: id -> content
    mongo_outbox,   \* Mongo collection outbox_messages: id -> document
    uuids,          \* number of Uuid::new_v4() values handed out
    clock,          \* Utc::now()
    lastCall,       \* the business / writer call that completed last
    committed,      \* outbox ids whose Postgres transaction committed
    rolledBack,     \* outbox ids whose Postgres transaction rolled back
    proc,           \* the process hosting relay and publisher: "down" | "running",
                    \* "stopped" once start() has returned
    chan,           \* RabbitMqPublisher.channel: "none" | "open" | "dead"
    brokerUp,       \* the broker is reachable
    batch,          \* documents of the open cursor still to be read
    polled,         \* ids of the documents of the open cursor, {} without one
    attempted,      \* ids the open cursor has handed to process_single_message
    published,      \* id -> publishes the broker received for that record
    faults,         \* process stops and relay storage errors so far
    \* RabbitMqPublisher, its two cells and the tasks that share it
    connection,     \* cell `connection`: 0 (None) or the id of the Connection
    channel,        \* cell `channel`: 0 (None) or the id of the Channel's Connection
    live,           \* ids of the connections the broker still serves
    dialled,        \* connections opened so far
    cpc,            \* connect(): "idle" | "dialled" | "stored"
    conn,           \* connect(): its local `conn` (and the channel made on it)
    cres,           \* result of the last connect(): "none" | "ok" | "err"
    ppc,            \* declare_exchange / publish: "idle" | "declare" | "publish"
    channel_guard,  \* the Channel the read guard of that call refers to
    kpc,            \* close(): "idle" | "closing"
    taken,          \* close(): the Connection it took out of the cell
    kres,           \* result of the last close(): "none" | "ok" | "err"
    kover,          \* a publish that began before close() is still running
    \* MockFriendshipRepository and the friend-request service
    friend_requests, \* Vec<FriendRequest>: user_id_requested, user_id_invited, status
    friends,        \* Vec<Friend>: user_id_1, user_id_2
    lastFriend,     \* the friend call that completed last
    \* MockServerRepository, MockMemberRepository and create_member
    mock_servers,   \* Vec<Server>: id -> name, description
    mock_members,   \* Vec<ServerMember>: server_id, user_id, nickname
    mpc,            \* create_member of each task: "idle" | "server_found" | "not_member"
    minput,         \* the CreateMemberInput of each running call
    mres,           \* what the last create_member of each task returned
    \* PostgresServerRepository::list
    catalog,        \* the public servers as ORDER BY created_at DESC returns them
    llimit,         \* GetPaginated::limit of the listing in progress, 0 if none
    lpages,         \* the pages the listing returned so far: items, total
    \* ServerService over MockServerRepository
    lastServer,     \* the server call that completed last
    \* what the relay did, for the record
    wire,           \* id -> the (exchange, routing key, payload) the broker received for it
    lost,           \* ids whose update to SENT did not follow a publish the broker took
    \* MongoMessageRepository::update and ::delete, one await at a time
    rpc,            \* position of each task in its call: "idle" | "upd_found" |
                    \* "upd_write" | "del_found" | "del_write"
    rin,            \* the message id of each running call
    rupdated,       \* update: find_one_and_update returned Some(document)
    rres,           \* what the last call of each task returned and the records it wrote
    removed         \* message id -> delete_one calls that removed a document

pgVars    == <<servers, members, pg_outbox>>
mongoVars == <<messages, mongo_outbox>>
relayVars == <<proc, chan, brokerUp, batch, polled, attempted, published, faults>>
histVars  == <<lastCall, committed, rolledBack>>
pubVars   == <<connection, channel, live, dialled, cpc, conn, cres,
               ppc, channel_guard, kpc, taken, kres, kover>>
friendVars == <<friend_requests, friends, lastFriend>>
\* the components no action of the outbox touches
memberVars == <<mock_servers, mock_members, mpc, minput, mres>>
pageVars  == <<catalog, llimit, lpages>>
\* the components added after the publisher, friend and member models
serverVars == <<lastServer>>
repoVars  == <<rpc, rin, rupdated, rres, removed>>
extraVars == <<pageVars, serverVars, repoVars>>
sideVars  == <<pubVars, friendVars, memberVars, extraVars>>
logVars   == <<wire, lost>>
outboxVars == <<servers, members, pg_outbox, messages, mongo_outbox, uuids, clock,
                lastCall, committed, rolledBack, proc, chan, brokerUp, batch,
                polled, attempted, published, faults, wire, lost>>
notPage   == <<outboxVars, pubVars, friendVars, memberVars, serverVars, repoVars>>
vars == <<servers, members, pg_outbox, messages, mongo_outbox, uuids, clock,
          lastCall, committed, rolledBack, proc, chan, brokerUp, batch,
          polled, attempted, published, faults,
          connection, channel, live, dialled, cpc, conn, cres,
          ppc, channel_guard, kpc, taken, kres, kover,
          friend_requests, friends, lastFriend,
          mock_servers, mock_members, mpc, minput, mres,
          catalog, llimit, lpages, lastServer, wire, lost,
          rpc, rin, rupdated, rres, removed>>

\* ------------------------------------------------------------ data model
\* MessageRoutingInfo(exchange_name, routing_key)
MessageRoutingInfo(exchange, key) == [exchange_name |-> exchange, routing_key |-> key]

\* OutboxEventRecord::new: a fresh v4 uuid, the router and the payload
OutboxEventRecord(id, router, payload) ==
    [id |-> id, router |-> router, payload |-> payload]

new_v4 == uuids + 1

\* the row / document the writer binds: status READY, failed_at None
NewRow(event, now) ==
    [id            |-> event.id,
     exchange_name |-> event.router.exchange_name,
     routing_key   |-> event.router.routing_key,
     payload       |-> event.payload,
     status        |-> "READY",
     failed_at     |-> Null,
     created_at    |-> now]

Put(table, row) ==
    [i \in DOMAIN table \cup {row.id} |-> IF i = row.id THEN row ELSE table[i]]

\* writer with ON CONFLICT (id) DO UPDATE: the bug ON CONFLICT DO NOTHING avoids
write_outbox_event_upsert(table, event, now) == Put(table, NewRow(event, now))

\* write_outbox_event on a Postgres executor:
\* INSERT ... ON CONFLICT (id) DO NOTHING
write_outbox_event(table, event, now) ==
    IF event.id \in DOMAIN table THEN table ELSE Put(table, NewRow(event, now))

\* ------------------------------------------------- Postgres repositories
\* A repository call runs its statements on a transaction handle tx (a private
\* copy of the database); tx.commit() installs it, leaving through `?` drops
\* the handle and with it every statement run on it.
PgDb == [servers |-> servers, members |-> members, outbox |-> pg_outbox]

PgFailures == {"none", "begin", "statement", "serialize", "outbox", "commit"}

\* the event is written through the pool, outside the transaction handle
PostgresServerRepository_insert_pool(db, s, event, now, f) ==
    LET tx1 == [db EXCEPT !.servers = @ \cup {s}]
        tx2 == [tx1 EXCEPT !.outbox = write_outbox_event(@, event, now)]
        auto == [db EXCEPT !.outbox = write_outbox_event(@, event, now)]
    IN  IF f \in {"begin", "statement"}
        THEN [db |-> db, res |-> "FailedToInsertServer", wrote |-> FALSE]
        ELSE IF f = "serialize"
        THEN [db |-> db, res |-> "SerializationError", wrote |-> TRUE]
        ELSE IF f = "outbox"
        THEN [db |-> db, res |-> "DatabaseError", wrote |-> TRUE]
        ELSE IF f = "commit"
        THEN [db |-> auto, res |-> "FailedToInsertServer", wrote |-> TRUE]
        ELSE [db |-> tx2, res |-> "Ok", wrote |-> TRUE]

\* PostgresServerRepository::insert
PostgresServerRepository_insert(db, s, event, now, f) ==
    LET tx1 == [db EXCEPT !.servers = @ \cup {s}]
        tx2 == [tx1 EXCEPT !.outbox = write_outbox_event(@, event, now)]
    IN  IF f \in {"begin", "statement"}
        THEN [db |-> db, res |-> "FailedToInsertServer", wrote |-> FALSE]
        ELSE IF f = "serialize"
        THEN [db |-> db, res |-> "SerializationError", wrote |-> TRUE]
        ELSE IF f = "outbox"
        THEN [db |-> db, res |-> "DatabaseError", wrote |-> TRUE]
        ELSE IF f = "commit"
        THEN [db |-> db, res |-> "FailedToInsertServer", wrote |-> TRUE]
        ELSE [db |-> tx2, res |-> "Ok", wrote |-> TRUE]

\* PostgresServerRepository::delete
PostgresServerRepository_delete(db, s, event, now, f) ==
    LET tx1 == [db EXCEPT !.servers = @ \ {s}]
        tx2 == [tx1 EXCEPT !.outbox = write_outbox_event(@, event, now)]
    IN  IF f \in {"begin", "statement"}
        THEN [db |-> db, res |-> "DatabaseError", wrote |-> FALSE]
        ELSE IF s \notin db.servers          \* rows_affected() == 0
        THEN [db |-> db, res |-> "ServerNotFound", wrote |-> FALSE]
        ELSE IF f = "serialize"
        THEN [db |-> db, res |-> "SerializationError", wrote |-> TRUE]
        ELSE IF f \in {"outbox", "commit"}
        THEN [db |-> db, res |-> "DatabaseError", wrote |-> TRUE]
        ELSE [db |-> tx2, res |-> "Ok", wrote |-> TRUE]

\* PostgresMemberRepository::insert: one statement on the pool, no event
PostgresMemberRepository_insert(db, mem, f) ==
    IF f = "statement" \/ mem \in db.members
    THEN [db |-> db, res |-> "DatabaseError", wrote |-> FALSE]
    ELSE [db |-> [db EXCEPT !.members = @ \cup {mem}], res |-> "Ok", wrote |-> FALSE]

\* the delete refuses to run while the publisher has no open channel
PostgresMemberRepository_delete_online(db, mem, event, now, f) ==
    LET tx1 == [db EXCEPT !.members = @ \ {mem}]
        tx2 == [tx1 EXCEPT !.outbox = write_outbox_event(@, event, now)]
    IN  IF f \in {"begin", "statement"}
        THEN [db |-> db, res |-> "DatabaseError", wrote |-> FALSE]
        ELSE IF mem \notin db.members
        THEN [db |-> db, res |-> "MemberNotFound", wrote |-> FALSE]
        ELSE IF f = "serialize"
        THEN [db |-> db, res |-> "SerializationError", wrote |-> TRUE]
        ELSE IF f \in {"outbox", "commit"} \/ chan # "open"
        THEN [db |-> db, res |-> "DatabaseError", wrote |-> TRUE]
        ELSE [db |-> tx2, res |-> "Ok", wrote |-> TRUE]

\* PostgresMemberRepository::delete
PostgresMemberRepository_delete(db, mem, event, now, f) ==
    LET tx1 == [db EXCEPT !.members = @ \ {mem}]
        tx2 == [tx1 EXCEPT !.outbox = write_outbox_event(@, event, now)]
    IN  IF f \in {"begin", "statement"}
        THEN [db |-> db, res |-> "DatabaseError", wrote |-> FALSE]
        ELSE IF mem \notin db.members        \* rows_affected() == 0
        THEN [db |-> db, res |-> "MemberNotFound", wrote |-> FALSE]
        ELSE IF f = "serialize"
        THEN [db |-> db, res |-> "SerializationError", wrote |-> TRUE]
        ELSE IF f \in {"outbox", "commit"}
        THEN [db |-> db, res |-> "DatabaseError", wrote |-> TRUE]
        ELSE [db |-> tx2, res |-> "Ok", wrote |-> TRUE]

\* --------------------------------------------------- call bookkeeping
NoCall == [n |-> 0, op |-> "none", store |-> "none", target |-> "", res |-> "none",
           ids |-> {}, added |-> {}, fail |-> "none"]

Call(op, store, target, res, ids, added, f) ==
    [n |-> lastCall.n + 1, op |-> op, store |-> store, target |-> target,
     res |-> res, ids |-> ids, added |-> added, fail |-> f]

CanCall == lastCall.n < MaxCalls

\* effect of a Postgres repository call r that drew (or not) the uuid new_v4
PgApply(op, target, r, f) ==
    /\ servers'   = r.db.servers
    /\ members'   = r.db.members
    /\ pg_outbox' = r.db.outbox
    /\ uuids'     = IF r.wrote THEN uuids + 1 ELSE uuids
    /\ committed' = IF r.wrote /\ r.res = "Ok" THEN committed \cup {new_v4} ELSE committed
    /\ rolledBack' = IF r.wrote /\ r.res # "Ok" THEN rolledBack \cup {new_v4} ELSE rolledBack
    /\ lastCall'  = Call(op, "pg", target, r.res,
                         IF r.wrote THEN {new_v4} ELSE {},
                         DOMAIN r.db.outbox \ DOMAIN pg_outbox, f)
    /\ UNCHANGED <<sideVars, logVars, mongoVars, clock, relayVars>>

InsertServer(s, f) ==
    /\ CanCall /\ uuids < MaxEvents
    /\ s \notin servers
    /\ PgApply("server.create", s,
               PostgresServerRepository_insert(PgDb, s,
                   OutboxEventRecord(new_v4, MessageRoutingInfo("notifications", "server.created"), s),
                   clock, f), f)

DeleteServer(s, f) ==
    /\ CanCall /\ uuids < MaxEvents
    /\ PgApply("server.delete", s,
               PostgresServerRepository_delete(PgDb, s,
                   OutboxEventRecord(new_v4, MessageRoutingInfo("notifications", "server.deleted"), s),
                   clock, f), f)

InsertMember(mem, f) ==
    /\ CanCall
    /\ PgApply("member.create", mem[2], PostgresMemberRepository_insert(PgDb, mem, f), f)

DeleteMember(mem, f) ==
    /\ CanCall /\ uuids < MaxEvents
    /\ PgApply("member.delete", mem[2],
               PostgresMemberRepository_delete(PgDb, mem,
                   OutboxEventRecord(new_v4, MessageRoutingInfo("notifications", "member.deleted"), mem[2]),
                   clock, f), f)

\* OutboxEventRecord::write called again with an id the table already holds
RewritePg(id, payload, f) ==
    /\ CanCall
    /\ id \in DOMAIN pg_outbox
    /\ LET event == OutboxEventRecord(id, MessageRoutingInfo("notifications", "server.created"), payload)
           table == IF f = "none" THEN write_outbox_event(pg_outbox, event, clock) ELSE pg_outbox
       IN  /\ pg_outbox' = table
           /\ lastCall' = Call("rewrite", "pg", payload,
                               IF f = "none" THEN "Ok" ELSE "DatabaseError",
                               {id}, DOMAIN table \ DOMAIN pg_outbox, f)
    /\ UNCHANGED <<sideVars, logVars, servers, members, mongoVars, uuids, clock, committed, rolledBack, relayVars>>

\* ------------------------------------------------ Mongo message store
MongoDb == [messages |-> messages, outbox |-> mongo_outbox]

\* write_outbox_event on a Mongo database handle: insert the document
\* { _id, exchange_name, routing_key, payload, status: READY } unless a
\* document with that _id exists
write_outbox_event_mongo(coll, event, now) ==
    IF event.id \in DOMAIN coll THEN coll ELSE Put(coll, NewRow(event, now))

PutMessage(msgs, m, content) ==
    [i \in DOMAIN msgs \cup {m} |-> IF i = m THEN content ELSE msgs[i]]

DropMessage(msgs, m) == [i \in DOMAIN msgs \ {m} |-> msgs[i]]

MessageEvent(id, key, m) ==
    OutboxEventRecord(id, MessageRoutingInfo("notifications", key), m)

\* MongoMessageRepository::insert: insert_one on `messages`, then the writer
MongoMessageRepository_insert(db, m, content, id, now, f) ==
    LET db1 == [db EXCEPT !.messages = PutMessage(@, m, content)]
        db2 == [db1 EXCEPT !.outbox =
                    write_outbox_event_mongo(@, MessageEvent(id, "message.created", m), now)]
    IN  IF f = "statement" \/ m \in DOMAIN db.messages      \* duplicate _id
        THEN [db |-> db, res |-> "DatabaseError", drew |-> 0]
        ELSE IF f = "repo_outbox"
        THEN [db |-> db1, res |-> "DatabaseError", drew |-> 1]
        ELSE [db |-> db2, res |-> "Ok", drew |-> 1]

\* MongoMessageRepository::update: find_by_id, find_one_and_update, the writer
MongoMessageRepository_update(db, m, content, id, now, f) ==
    LET db1 == [db EXCEPT !.messages = PutMessage(@, m, content)]
        db2 == [db1 EXCEPT !.outbox =
                    write_outbox_event_mongo(@, MessageEvent(id, "message.updated", m), now)]
    IN  IF f = "find"
        THEN [db |-> db, res |-> "DatabaseError", drew |-> 0]
        ELSE IF m \notin DOMAIN db.messages
        THEN [db |-> db, res |-> "MessageNotFound", drew |-> 0]
        ELSE IF f = "statement"
        THEN [db |-> db, res |-> "DatabaseError", drew |-> 0]
        ELSE IF f = "repo_outbox"
        THEN [db |-> db1, res |-> "DatabaseError", drew |-> 1]
        ELSE [db |-> db2, res |-> "Ok", drew |-> 1]

\* MongoMessageRepository::delete: find_by_id, delete_one, the writer
MongoMessageRepository_delete(db, m, id, now, f) ==
    LET db1 == [db EXCEPT !.messages = DropMessage(@, m)]
        db2 == [db1 EXCEPT !.outbox =
                    write_outbox_event_mongo(@, MessageEvent(id, "message.deleted", m), now)]
    IN  IF f = "find"
        THEN [db |-> db, res |-> "DatabaseError", drew |-> 0]
        ELSE IF m \notin DOMAIN db.messages
        THEN [db |-> db, res |-> "MessageNotFound", drew |-> 0]
        ELSE IF f = "statement"
        THEN [db |-> db, res |-> "DatabaseError", drew |-> 0]
        ELSE IF f = "repo_outbox"
        THEN [db |-> db1, res |-> "DatabaseError", drew |-> 1]
        ELSE [db |-> db2, res |-> "Ok", drew |-> 1]

\* MongoOutboxEventRepository::write_event after a repository call r
ServiceWriteEvent(r, key, m, id, now, f) ==
    IF r.res # "Ok" THEN r
    ELSE IF f = "svc_outbox"
    THEN [db |-> r.db, res |-> "DatabaseError", drew |-> r.drew + 1]
    ELSE [db |-> [r.db EXCEPT !.outbox =
                      write_outbox_event_mongo(@, MessageEvent(id, key, m), now)],
          res |-> "Ok", drew |-> r.drew + 1]

\* MessageService::create_message
MessageService_create_message(db, m, content, id1, id2, now, f) ==
    IF content = " "                                   \* content.trim().is_empty()
    THEN [db |-> db, res |-> "InvalidMessageName", drew |-> 0]
    ELSE ServiceWriteEvent(MongoMessageRepository_insert(db, m, content, id1, now, f),
                           "message.created", m, id2, now, f)

\* MessageService::update_message
MessageService_update_message(db, m, content, id1, id2, now, f) ==
    IF f = "svc_find"
    THEN [db |-> db, res |-> "DatabaseError", drew |-> 0]
    ELSE IF m \notin DOMAIN db.messages
    THEN [db |-> db, res |-> "MessageNotFound", drew |-> 0]
    ELSE ServiceWriteEvent(MongoMessageRepository_update(db, m, content, id1, now, f),
                           "message.updated", m, id2, now, f)

\* MessageService::delete_message
MessageService_delete_message(db, m, id1, id2, now, f) ==
    IF f = "svc_find"
    THEN [db |-> db, res |-> "DatabaseError", drew |-> 0]
    ELSE IF m \notin DOMAIN db.messages
    THEN [db |-> db, res |-> "MessageNotFound", drew |-> 0]
    ELSE ServiceWriteEvent(MongoMessageRepository_delete(db, m, id1, now, f),
                           "message.deleted", m, id2, now, f)

MongoFailures == {"none", "svc_find", "find", "statement", "repo_outbox", "svc_outbox"}

MongoApply(op, target, r, f) ==
    /\ messages'     = r.db.messages
    /\ mongo_outbox' = r.db.outbox
    /\ uuids'        = uuids + r.drew
    /\ lastCall'     = Call(op, "mongo", target, r.res,
                            {uuids + k : k \in 1..r.drew},
                            DOMAIN r.db.outbox \ DOMAIN mongo_outbox, f)
    /\ UNCHANGED <<sideVars, logVars, pgVars, clock, committed, rolledBack, relayVars>>

CreateMessage(m, content, f) ==
    /\ CanCall /\ uuids + 2 <= MaxEvents
    /\ MongoApply("message.create", m,
                  MessageService_create_message(MongoDb, m, content, uuids + 1, uuids + 2, clock, f), f)

UpdateMessage(m, content, f) ==
    /\ CanCall /\ uuids + 2 <= MaxEvents
    /\ MongoApply("message.update", m,
                  MessageService_update_message(MongoDb, m, content, uuids + 1, uuids + 2, clock, f), f)

DeleteMessage(m, f) ==
    /\ CanCall /\ uuids + 2 <= MaxEvents
    /\ MongoApply("message.delete", m,
                  MessageService_delete_message(MongoDb, m, uuids + 1, uuids + 2, clock, f), f)

\* the writer called again with an _id the collection already holds
RewriteMongo(id, payload, f) ==
    /\ CanCall
    /\ id \in DOMAIN mongo_outbox
    /\ LET event == MessageEvent(id, "message.created", payload)
           coll  == IF f = "none" THEN write_outbox_event_mongo(mongo_outbox, event, clock)
                    ELSE mongo_outbox
       IN  /\ mongo_outbox' = coll
           /\ lastCall' = Call("rewrite", "mongo", payload,
                               IF f = "none" THEN "Ok" ELSE "DatabaseError",
                               {id}, DOMAIN coll \ DOMAIN mongo_outbox, f)
    /\ UNCHANGED <<sideVars, logVars, pgVars, messages, uuids, clock, committed, rolledBack, relayVars>>

Tick ==
    /\ clock < MaxClock
    /\ clock' = clock + 1
    /\ UNCHANGED <<sideVars, logVars, pgVars, mongoVars, uuids, histVars, relayVars>>

\* ------------------------------------------------------ broker publisher
\* RabbitMqPublisher::connect: on success the channel cell holds a fresh channel
connect(ch, up) == IF up THEN "open" ELSE ch

\* RabbitMqPublisher::is_connected: a connection is held and its status is
\* connected
is_connected(ch) == ch = "open"

\* RabbitMqPublisher::ensure_connected: connect() unless is_connected()
ensure_connected(ch, up) == IF is_connected(ch) THEN ch ELSE connect(ch, up)

\* RabbitMqPublisher::publish: Err without a channel ("Channel not
\* initialized"), Err when basic_publish or the await of its PublisherConfirm
\* fails. The channel is never put in confirm mode (no confirm_select), so the
\* confirmation resolves without an acknowledgment of the broker and its value
\* is dropped: "unacked" is a publish that returned Ok for a message the broker
\* did not take. `flaky` is what goes wrong on an open channel to a reachable
\* broker: "none", "err" or "unacked".
PublishOutcomes(ch, up, flaky) ==
    IF ch = "open" /\ up
    THEN {IF flaky = "none" THEN "ok" ELSE flaky}
    ELSE {"err"}

\* the Result publish() hands to the relay
PublishResult(o) == IF o = "err" THEN "err" ELSE "ok"

\* ------------------------------------------------------------- the relay
Min(a, b) == IF a <= b THEN a ELSE b

\* the cursors a find with `filter`, sort {created_at: 1} and limit can return:
\* the documents matching the filter with the smallest created_at, ascending
Find(coll, matching, limit) ==
    LET n == Min(limit, Cardinality(matching))
    IN  {q \in [1..n -> matching] :
            /\ \A i, j \in 1..n : i < j => q[i] # q[j]
            /\ \A i, j \in 1..n : i < j => coll[q[i]].created_at <= coll[q[j]].created_at
            /\ \A x \in matching :
                   (\A i \in 1..n : q[i] # x) =>
                       \A i \in 1..n : coll[q[i]].created_at <= coll[x].created_at}

\* sort { created_at: -1 }: the newest READY documents first
FindNewest(coll) ==
    LET matching == {i \in DOMAIN coll : coll[i].status = "READY"}
        n == Min(BatchLimit, Cardinality(matching))
    IN  {q \in [1..n -> matching] :
            /\ \A i, j \in 1..n : i < j => q[i] # q[j]
            /\ \A i, j \in 1..n : i < j => coll[q[i]].created_at >= coll[q[j]].created_at
            /\ \A x \in matching :
                   (\A i \in 1..n : q[i] # x) =>
                       \A i \in 1..n : coll[q[i]].created_at >= coll[x].created_at}

\* a find without the status filter
FindAny(coll) == Find(coll, DOMAIN coll, BatchLimit)

\* filter { status: { $ne: "FAILED" } }
FindNotFailed(coll) ==
    Find(coll, {i \in DOMAIN coll : coll[i].status # "FAILED"}, BatchLimit)

\* filter { status: { $ne: "SENT" } }
FindNotSent(coll) ==
    Find(coll, {i \in DOMAIN coll : coll[i].status # "SENT"}, BatchLimit)

\* the query without .limit(100)
FindReady_nolimit(coll) ==
    Find(coll, {i \in DOMAIN coll : coll[i].status = "READY"}, Cardinality(DOMAIN coll))

\* process_pending_messages, the query: filter { status: "READY" },
\* sort { created_at: 1 }, limit 100
FindReady(coll) ==
    Find(coll, {i \in DOMAIN coll : coll[i].status = "READY"}, BatchLimit)

Docs(coll, q) == [i \in 1..Len(q) |-> coll[q[i]]]

\* the FAILED arm with "$set": { "status": "FAILED" } only
UpdateStatus_nofailedat(coll, id, res, now) ==
    IF id \notin DOMAIN coll THEN coll
    ELSE IF res = "ok" THEN [coll EXCEPT ![id].status = "SENT"]
    ELSE [coll EXCEPT ![id].status = "FAILED"]

\* the SENT arm as a delete_one of the published record
UpdateStatus_delete(coll, id, res, now) ==
    IF id \notin DOMAIN coll THEN coll
    ELSE IF res = "ok" THEN [x \in DOMAIN coll \ {id} |-> coll[x]]
    ELSE [coll EXCEPT ![id].status = "FAILED", ![id].failed_at = now]

\* the Ok arm without its update_one
UpdateStatus_nosent(coll, id, res, now) ==
    IF id \notin DOMAIN coll \/ res = "ok" THEN coll
    ELSE [coll EXCEPT ![id].status = "FAILED", ![id].failed_at = now]

\* process_single_message, the update_one by _id after the publish:
\* $set status SENT, or $set status FAILED and failed_at now
UpdateStatus(coll, id, res, now) ==
    IF id \notin DOMAIN coll THEN coll
    ELSE IF res = "ok" THEN [coll EXCEPT ![id].status = "SENT"]
    ELSE [coll EXCEPT ![id].status = "FAILED", ![id].failed_at = now]

\* process start: RabbitMqPublisher::new, connect(), OutboxRelayService::start
Start ==
    /\ proc = "down"
    /\ proc' = "running"
    /\ chan' = connect("none", brokerUp)
    /\ UNCHANGED <<sideVars, logVars, pgVars, mongoVars, uuids, clock, histVars,
                   brokerUp, batch, polled, attempted, published, faults>>

\* the process stops between two documents or two polls; the cursor and the
\* publisher are lost, the stores stay
Crash ==
    /\ proc = "running"
    /\ faults < MaxFaults
    /\ proc' = "down"
    /\ chan' = "none"
    /\ batch' = <<>>
    /\ polled' = {}
    /\ attempted' = {}
    /\ faults' = faults + 1
    /\ UNCHANGED <<sideVars, logVars, pgVars, mongoVars, uuids, clock, histVars, brokerUp, published>>

\* the broker becomes unreachable: an open channel is dead from now on
BrokerDown ==
    /\ brokerUp
    /\ brokerUp' = FALSE
    /\ chan' = IF chan = "open" THEN "dead" ELSE chan
    /\ UNCHANGED <<sideVars, logVars, pgVars, mongoVars, uuids, clock, histVars,
                   proc, batch, polled, attempted, published, faults>>

BrokerRecover ==
    /\ ~brokerUp
    /\ brokerUp' = TRUE
    /\ UNCHANGED <<sideVars, logVars, pgVars, mongoVars, uuids, clock, histVars,
                   proc, chan, batch, polled, attempted, published, faults>>

\* start(), the loop body with `?`: an Err of process_pending_messages ends
\* the loop
start_propagate(p) == "stopped"

\* start(), the loop body: an Err of process_pending_messages is logged and the
\* loop waits for the next tick
start(p) == p

\* start(), the loop body with tokio::spawn(process_pending_messages()): a tick
\* starts a poll whether or not the previous batch is done
can_poll_spawned(cursor) == TRUE

\* start(), the loop body: process_pending_messages().await returns before the
\* loop waits for the next tick
can_poll(cursor) == cursor = <<>>

\* start(): a tick of the interval timer, then the query of
\* process_pending_messages; a query that fails or finds nothing ends the poll
Poll(storage) ==
    /\ proc = "running" /\ can_poll(batch)
    /\ \E ok \in storage :
         IF ok
         THEN /\ \E q \in FindReady(mongo_outbox) :
                    /\ batch' = Docs(mongo_outbox, q)
                    /\ polled' = {q[i] : i \in DOMAIN q}
              /\ faults' = faults
              /\ proc' = proc
         ELSE /\ faults < MaxFaults
              /\ faults' = faults + 1
              /\ polled' = {}
              /\ proc' = start(proc)
              /\ UNCHANGED batch
    /\ attempted' = {}
    /\ UNCHANGED <<sideVars, logVars, pgVars, mongoVars, uuids, clock, histVars,
                   chan, brokerUp, published>>

\* cursor.try_next() fails: process_pending_messages returns the error
CursorError ==
    /\ proc = "running" /\ batch # <<>>
    /\ faults < MaxFaults
    /\ faults' = faults + 1
    /\ batch' = <<>>
    /\ polled' = {}
    /\ attempted' = {}
    /\ proc' = start(proc)
    /\ UNCHANGED <<sideVars, logVars, pgVars, mongoVars, uuids, clock, histVars,
                   chan, brokerUp, published>>

\* process_pending_messages, the loop body: an Err of process_single_message is
\* returned to the caller of the poll
RestOfCursor_propagate(q, res, upd) ==
    IF res = "ok" /\ upd = "ok" THEN Tail(q) ELSE <<>>

\* process_pending_messages, the loop body: an Err of process_single_message is
\* logged and the cursor is read on
RestOfCursor(q, res, upd) == Tail(q)

\* a field that is absent or holds a value the relay cannot read as a string
Missing == "<missing>"

\* a payload stored as a BSON string or document instead of Binary
LegacyPayload == "<json>"

\* Bson::Binary(bin) = payload
is_binary(payload) == payload \notin {Missing, LegacyPayload}

\* _id is a Binary or a String that holds a uuid; other ids are negative here
id_is_uuid(id) == id > 0

\* the payload arm returns the Err without an update
parse_nomark(doc) ==
    IF \/ ~id_is_uuid(doc.id)
       \/ doc.exchange_name = Missing
       \/ doc.routing_key = Missing
       \/ ~is_binary(doc.payload)
    THEN "unparseable"
    ELSE "ok"

\* process_single_message, up to declare_exchange: "unparseable" when a `?`
\* returns the Err, "not_binary" when the payload arm marks the record FAILED
parse(doc) ==
    IF \/ ~id_is_uuid(doc.id)
       \/ doc.exchange_name = Missing
       \/ doc.routing_key = Missing
       \/ doc.payload = Missing
    THEN "unparseable"
    ELSE IF ~is_binary(doc.payload) THEN "not_binary" ELSE "ok"

\* publish with the routing the publisher was configured with
publish_args_fixed(doc) ==
    [exchange |-> "notifications", routing_key |-> "message.created",
     payload |-> doc.payload]

\* publish(exchange_name, routing_key, payload_bytes)
publish_args(doc) ==
    [exchange |-> doc.exchange_name, routing_key |-> doc.routing_key,
     payload |-> doc.payload]

\* process_single_message for the next document of the cursor: the fields are
\* read, then declare_exchange, publish and update_one. The update succeeds
\* ("ok"), fails ("error": logged, the loop goes on) or is never issued because
\* the process stops after the publish ("stopped"). A document that cannot be
\* read is left as it is; one whose payload is not binary is set FAILED without
\* a publish. The cursor is dropped with its last document.
ProcessSingle(storage, flaky) ==
    /\ proc = "running" /\ batch # <<>>
    /\ LET doc   == Head(batch)
           shape == parse(doc)
       IN  \E fl \in flaky, upd \in (IF shape = "unparseable" THEN {"ok"} ELSE storage) :
           \E o \in (IF shape = "ok" THEN PublishOutcomes(chan, brokerUp, fl) ELSE {"none"}) :
           LET res == IF shape = "ok" THEN PublishResult(o) ELSE "err" IN
             /\ shape # "ok" => fl = "none"
             /\ published' = IF o = "ok"
                             THEN [published EXCEPT ![doc.id] = @ + 1]
                             ELSE published
             /\ wire' = IF o = "ok"
                        THEN [wire EXCEPT ![doc.id] = @ \cup {publish_args(doc)}]
                        ELSE wire
             /\ lost' = IF o = "ok" /\ upd # "ok" THEN lost \cup {doc.id} ELSE lost
             /\ upd # "ok" => faults < MaxFaults
             /\ faults' = IF upd = "ok" THEN faults ELSE faults + 1
             /\ mongo_outbox' = IF upd = "ok" /\ shape # "unparseable"
                                THEN UpdateStatus(mongo_outbox, doc.id, res, clock)
                                ELSE mongo_outbox
             /\ batch' = IF upd = "stopped" THEN <<>> ELSE RestOfCursor(batch, res, upd)
             /\ LET closed == upd = "stopped" \/ attempted \cup {doc.id} = polled
                IN  /\ polled' = IF closed THEN {} ELSE polled
                    /\ attempted' = IF closed THEN {} ELSE attempted \cup {doc.id}
             /\ proc' = IF upd = "stopped" THEN "down" ELSE proc
             /\ chan' = IF upd = "stopped" THEN "none" ELSE chan
    /\ UNCHANGED <<sideVars, pgVars, messages, uuids, clock, histVars, brokerUp>>

\* a document put into outbox_messages by something other than the writer
\* (a legacy writer, a migration): READY, with one field the relay cannot read
ForeignKinds == {"bad_id", "no_exchange", "no_routing_key", "no_payload", "legacy_payload"}

ForeignRow(kind, id, now) ==
    [id            |-> IF kind = "bad_id" THEN 0 - id ELSE id,
     exchange_name |-> IF kind = "no_exchange" THEN Missing ELSE "notifications",
     routing_key   |-> IF kind = "no_routing_key" THEN Missing ELSE "message.created",
     payload       |-> IF kind = "no_payload" THEN Missing
                       ELSE IF kind = "legacy_payload" THEN LegacyPayload
                       ELSE "m1",
     status        |-> "READY",
     failed_at     |-> Null,
     created_at    |-> now]

ForeignIds(coll) ==
    {x \in DOMAIN coll : parse(coll[x]) # "ok"}

InsertForeign(kind) ==
    /\ uuids < MaxEvents
    /\ Cardinality(ForeignIds(mongo_outbox)) < MaxForeign
    /\ mongo_outbox' = Put(mongo_outbox, ForeignRow(kind, new_v4, clock))
    /\ uuids' = uuids + 1
    /\ UNCHANGED <<sideVars, logVars, pgVars, messages, clock, histVars, relayVars>>

\* ------------------------------------- the publisher's cells and locks
\* connect(), `*self.channel.write().await = Some(channel)` with a cell that is
\* only filled when it is empty
store_channel_once(old, new) == IF old = 0 THEN new ELSE old

\* connect(): `*self.channel.write().await = Some(channel)`
store_channel(old, new) == new

\* connect(): Connection::connect and create_channel; an Err of either returns
\* before a cell is written
connect_dial ==
    /\ cpc = "idle"
    /\ IF brokerUp /\ dialled < MaxConns
       THEN /\ dialled' = dialled + 1
            /\ conn' = dialled + 1
            /\ live' = live \cup {dialled + 1}
            /\ cpc' = "dialled"
            /\ cres' = "none"
       ELSE /\ ~brokerUp
            /\ cres' = "err"
            /\ UNCHANGED <<dialled, conn, live, cpc>>
    /\ UNCHANGED <<outboxVars, friendVars, memberVars, extraVars, connection, channel, ppc, channel_guard,
                   kpc, taken, kres, kover>>

\* connect(): `*self.connection.write().await = Some(conn)`; the write lock is
\* free when no close() holds it
connect_store_connection ==
    /\ cpc = "dialled" /\ kpc = "idle"
    /\ connection' = conn
    /\ cpc' = "stored"
    /\ UNCHANGED <<outboxVars, friendVars, memberVars, extraVars, channel, live, dialled, conn, cres, ppc,
                   channel_guard, kpc, taken, kres, kover>>

\* connect(): `*self.channel.write().await = Some(channel)`, Ok(()); the write
\* lock is free when no declare_exchange or publish holds a read guard
connect_store_channel ==
    /\ cpc = "stored" /\ ppc = "idle"
    /\ channel' = store_channel(channel, conn)
    /\ cpc' = "idle"
    /\ cres' = "ok"
    /\ UNCHANGED <<outboxVars, friendVars, memberVars, extraVars, connection, live, dialled, conn, ppc,
                   channel_guard, kpc, taken, kres, kover>>

\* declare_exchange / publish: `self.channel.read().await`; Err at once when the
\* cell is empty, else the guard is held to the end of the call
publisher_read(op) ==
    /\ ppc = "idle"
    /\ channel # 0
    /\ ppc' = op
    /\ channel_guard' = channel
    /\ UNCHANGED <<outboxVars, friendVars, memberVars, extraVars, connection, channel, live, dialled, cpc, conn,
                   cres, kpc, taken, kres, kover>>

\* declare_exchange / publish: the call on the Channel ends and the guard is
\* dropped
publisher_return ==
    /\ ppc # "idle"
    /\ ppc' = "idle"
    /\ channel_guard' = 0
    /\ kover' = FALSE
    /\ UNCHANGED <<outboxVars, friendVars, memberVars, extraVars, connection, channel, live, dialled, cpc, conn,
                   cres, kpc, taken, kres>>

\* the broker or the network drops every connection
Disconnect ==
    /\ brokerUp
    /\ live' = {}
    /\ brokerUp' = FALSE
    /\ UNCHANGED <<servers, members, pg_outbox, messages, mongo_outbox, uuids,
                   clock, lastCall, committed, rolledBack, proc, chan, batch,
                   polled, attempted, published, faults, logVars,
                   connection, channel, dialled, cpc, conn, cres, ppc,
                   channel_guard, kpc, taken, kres, kover, friendVars, memberVars, extraVars>>

\* close(): `self.connection.write().await` and `conn_guard.take()`; the write
\* guard lives to the end of the call
close_take ==
    /\ kpc = "idle"
    /\ kpc' = "closing"
    /\ taken' = connection
    /\ connection' = 0
    /\ kover' = (ppc # "idle")
    /\ kres' = "none"
    /\ UNCHANGED <<outboxVars, friendVars, memberVars, extraVars, channel, live, dialled, cpc, conn, cres, ppc,
                   channel_guard>>

\* close(): `conn.close(0, "Normal shutdown").await` when a Connection was
\* taken, then the return; closing a connection the broker dropped is an Err
close_return ==
    /\ kpc = "closing"
    /\ kpc' = "idle"
    /\ live' = live \ {taken}
    /\ kres' = IF taken = 0 \/ taken \in live THEN "ok" ELSE "err"
    /\ taken' = 0
    /\ UNCHANGED <<outboxVars, friendVars, memberVars, extraVars, connection, channel, dialled, cpc, conn, cres,
                   ppc, channel_guard, kover>>

\* ------------------------------------------- friend requests (mock store)
Retain(q, keep(_)) == SelectSeq(q, keep)

RemoveAt(q, pos) == [i \in 1..(Len(q) - 1) |-> IF i < pos THEN q[i] ELSE q[i + 1]]

FriendStore == [requests |-> friend_requests, friends |-> friends]

\* MockFriendshipRepository::get_request
get_request(requests, requested, invited) ==
    \E i \in DOMAIN requests :
        /\ requests[i].user_id_requested = requested
        /\ requests[i].user_id_invited = invited

\* MockFriendshipRepository::create_request
create_request(st, requested, invited) ==
    IF get_request(st.requests, requested, invited)
    THEN [st |-> st, res |-> "FriendRequestAlreadyExists"]
    ELSE [st |-> [st EXCEPT !.requests =
                     Append(@, [user_id_requested |-> requested,
                                user_id_invited |-> invited, status |-> 0])],
          res |-> "Ok"]

\* create_friend_request without the look-up of the opposite request
create_friend_request_oneway(st, requested, invited) ==
    create_request(st, requested, invited)

\* FriendRequestService::create_friend_request
create_friend_request(st, requested, invited) ==
    IF get_request(st.requests, invited, requested)
    THEN [st |-> st, res |-> "FriendshipAlreadyExists"]
    ELSE create_request(st, requested, invited)

\* MockFriendshipRepository::accept_request (FriendRequestService::
\* accept_friend_request only forwards to it)
accept_request(st, requested, invited) ==
    LET pending == {i \in DOMAIN st.requests :
                       /\ st.requests[i].user_id_requested = requested
                       /\ st.requests[i].user_id_invited = invited
                       /\ st.requests[i].status = 0}
    IN  IF pending = {}
        THEN [st |-> st, res |-> "FriendRequestNotFound"]
        ELSE LET pos == CHOOSE i \in pending : \A j \in pending : i <= j
                 st1 == [st EXCEPT !.requests = RemoveAt(@, pos)]
             IN  IF \E k \in DOMAIN st.friends :
                        \/ /\ st.friends[k].user_id_1 = requested
                           /\ st.friends[k].user_id_2 = invited
                        \/ /\ st.friends[k].user_id_1 = invited
                           /\ st.friends[k].user_id_2 = requested
                 THEN [st |-> st1, res |-> "FriendshipAlreadyExists"]
                 ELSE [st |-> [st1 EXCEPT !.friends =
                                  Append(@, [user_id_1 |-> requested,
                                             user_id_2 |-> invited])],
                       res |-> "Ok"]

\* MockFriendshipRepository::decline_request
decline_request(st, requested, invited) ==
    IF ~get_request(st.requests, requested, invited)
    THEN [st |-> st, res |-> "FriendRequestNotFound"]
    ELSE LET pos == CHOOSE i \in DOMAIN st.requests :
                        /\ st.requests[i].user_id_requested = requested
                        /\ st.requests[i].user_id_invited = invited
                        /\ \A j \in 1..(i - 1) :
                               ~(/\ st.requests[j].user_id_requested = requested
                                 /\ st.requests[j].user_id_invited = invited)
         IN  [st |-> [st EXCEPT !.requests[pos].status = 1], res |-> "Ok"]

\* MockFriendshipRepository::remove_request
remove_request(st, requested, invited) ==
    LET keep(r) == ~(r.user_id_requested = requested /\ r.user_id_invited = invited)
        left == Retain(st.requests, keep)
    IN  IF Len(left) = Len(st.requests)
        THEN [st |-> st, res |-> "FriendRequestNotFound"]
        ELSE [st |-> [st EXCEPT !.requests = left], res |-> "Ok"]

\* MockFriendshipRepository::remove_friend
remove_friend(st, u1, u2) ==
    LET keep(f) == ~(\/ (f.user_id_1 = u1 /\ f.user_id_2 = u2)
                     \/ (f.user_id_1 = u2 /\ f.user_id_2 = u1))
        left == Retain(st.friends, keep)
    IN  IF Len(left) = Len(st.friends)
        THEN [st |-> st, res |-> "FriendshipNotFound"]
        ELSE [st |-> [st EXCEPT !.friends = left], res |-> "Ok"]

\* the key of the friends table, as the INSERT of accept_request meets it: a
\* second row with the same user_id_1 and user_id_2 is refused (the schema is
\* in ./migrations; the statements store a pair in the order of the request and
\* remove_friend looks for both orders)
friends_key(f) == <<f.user_id_1, f.user_id_2>>

\* PostgresFriendshipRepository::accept_request: DELETE the pending request
\* and INSERT the friendship in one transaction, which is dropped on an error
PostgresFriendshipRepository_accept_request(st, requested, invited) ==
    LET pending == {i \in DOMAIN st.requests :
                       /\ st.requests[i].user_id_requested = requested
                       /\ st.requests[i].user_id_invited = invited
                       /\ st.requests[i].status = 0}
        row == [user_id_1 |-> requested, user_id_2 |-> invited]
        keep(r) == ~(/\ r.user_id_requested = requested
                     /\ r.user_id_invited = invited
                     /\ r.status = 0)
    IN  IF pending = {}
        THEN [st |-> st, res |-> "FriendRequestNotFound"]
        ELSE IF \E k \in DOMAIN st.friends : friends_key(st.friends[k]) = friends_key(row)
        THEN [st |-> st, res |-> "FriendshipAlreadyExists"]
        ELSE [st |-> [requests |-> Retain(st.requests, keep),
                      friends |-> Append(st.friends, row)],
              res |-> "Ok"]

NoFriendCall == [op |-> "none", requested |-> "", invited |-> "", res |-> "none"]

FriendApply(op, requested, invited, r) ==
    /\ friend_requests' = r.st.requests
    /\ friends' = r.st.friends
    /\ lastFriend' = [op |-> op, requested |-> requested, invited |-> invited,
                      res |-> r.res]
    /\ UNCHANGED <<outboxVars, pubVars, memberVars, extraVars>>

CreateFriendRequest(a, b) ==
    FriendApply("create", a, b, create_friend_request(FriendStore, a, b))

AcceptFriendRequest(a, b) ==
    FriendApply("accept", a, b, accept_request(FriendStore, a, b))

DeclineFriendRequest(a, b) ==
    FriendApply("decline", a, b, decline_request(FriendStore, a, b))

DeleteFriendRequest(a, b) ==
    FriendApply("delete", a, b, remove_request(FriendStore, a, b))

DeleteFriend(a, b) ==
    FriendApply("delete_friend", a, b, remove_friend(FriendStore, a, b))

PgAcceptFriendRequest(a, b) ==
    FriendApply("accept", a, b,
                PostgresFriendshipRepository_accept_request(FriendStore, a, b))

\* ------------------------- MongoMessageRepository, one await at a time
\* update and delete of MongoMessageRepository as the tasks of the runtime run
\* them: each awaited statement is a step, and between two steps of a call the
\* other task may run its own
NoRepoCall == [op |-> "none", m |-> "", res |-> "none", wrote |-> {}]

RepoReturn(t, op, res, wrote) ==
    /\ rpc' = [rpc EXCEPT ![t] = "idle"]
    /\ rin' = [rin EXCEPT ![t] = ""]
    /\ rupdated' = [rupdated EXCEPT ![t] = FALSE]
    /\ rres' = [rres EXCEPT ![t] = [op |-> op, m |-> rin[t], res |-> res, wrote |-> wrote]]

\* every call that is running, and the one that begins, has an id left for
\* the record it may write
CanBegin == uuids + Cardinality({t \in RepoTasks : rpc[t] # "idle"}) < MaxEvents

repoFrame == <<pubVars, friendVars, memberVars, pageVars, serverVars, logVars,
               pgVars, clock, histVars, relayVars>>

\* MongoMessageRepository::insert, whole: the message and its message.created
repo_insert(m) ==
    /\ CanBegin
    /\ m \notin DOMAIN messages
    /\ LET r == MongoMessageRepository_insert(MongoDb, m, "a", new_v4, clock, "none")
       IN  /\ messages' = r.db.messages
           /\ mongo_outbox' = r.db.outbox
           /\ uuids' = uuids + r.drew
    /\ UNCHANGED <<repoFrame, repoVars>>

\* update / delete: self.find_by_id(&id).await?, None returns MessageNotFound
repo_find(t, op, m) ==
    /\ rpc[t] = "idle"
    /\ CanBegin
    /\ IF m \in DOMAIN messages
       THEN /\ rpc' = [rpc EXCEPT ![t] = IF op = "update" THEN "upd_found" ELSE "del_found"]
            /\ rin' = [rin EXCEPT ![t] = m]
            /\ UNCHANGED <<rupdated, rres>>
       ELSE /\ rpc' = rpc /\ rin' = rin /\ rupdated' = rupdated
            /\ rres' = [rres EXCEPT ![t] = [op |-> op, m |-> m,
                                           res |-> "MessageNotFound", wrote |-> {}]]
    /\ UNCHANGED <<repoFrame, messages, mongo_outbox, uuids, removed>>

update_find(t, m) == repo_find(t, "update", m)

\* update: collection.find_one_and_update(..).await?, kept in `updated`
update_find_one_and_update(t, content) ==
    /\ rpc[t] = "upd_found"
    /\ rpc' = [rpc EXCEPT ![t] = "upd_write"]
    /\ rupdated' = [rupdated EXCEPT ![t] = rin[t] \in DOMAIN messages]
    /\ messages' = IF rin[t] \in DOMAIN messages
                   THEN PutMessage(messages, rin[t], content) ELSE messages
    /\ UNCHANGED <<repoFrame, mongo_outbox, uuids, rin, rres, removed>>

\* update: write_outbox_event(message.updated).await?, then
\* updated.ok_or(MessageNotFound)
update_write_outbox_event(t) ==
    /\ rpc[t] = "upd_write"
    /\ mongo_outbox' = write_outbox_event_mongo(mongo_outbox,
                           MessageEvent(new_v4, "message.updated", rin[t]), clock)
    /\ uuids' = uuids + 1
    /\ RepoReturn(t, "update", IF rupdated[t] THEN "Ok" ELSE "MessageNotFound", {new_v4})
    /\ UNCHANGED <<repoFrame, messages, removed>>

delete_find(t, m) == repo_find(t, "delete", m)

\* delete: collection.delete_one(..).await?, deleted_count == 0 returns
\* MessageNotFound
delete_one(t) ==
    /\ rpc[t] = "del_found"
    /\ IF rin[t] \in DOMAIN messages
       THEN /\ messages' = DropMessage(messages, rin[t])
            /\ removed' = [removed EXCEPT ![rin[t]] = @ + 1]
            /\ rpc' = [rpc EXCEPT ![t] = "del_write"]
            /\ UNCHANGED <<rin, rupdated, rres>>
       ELSE /\ RepoReturn(t, "delete", "MessageNotFound", {})
            /\ UNCHANGED <<messages, removed>>
    /\ UNCHANGED <<repoFrame, mongo_outbox, uuids>>

\* delete: write_outbox_event(message.deleted).await?, then Ok(())
delete_write_outbox_event(t) ==
    /\ rpc[t] = "del_write"
    /\ mongo_outbox' = write_outbox_event_mongo(mongo_outbox,
                           MessageEvent(new_v4, "message.deleted", rin[t]), clock)
    /\ uuids' = uuids + 1
    /\ RepoReturn(t, "delete", "Ok", {new_v4})
    /\ UNCHANGED <<repoFrame, messages, removed>>

\* ------------------------------------------------------ specifications
\* ------------------------------------------------- server members
\* MemberService::create_member over MockServerRepository and
\* MockMemberRepository. Each repository call locks its Vec for the call only,
\* and the service awaits between the calls, so two calls of the service
\* interleave at the repository calls.

MemberTasks   == {1, 2}
MemberServers == {"s1", "s2"}

\* Option<String>
None    == [some |-> FALSE, v |-> <<>>]
Some(v) == [some |-> TRUE, v |-> v]
Nicknames == {None, Some(<<>>), Some(<<" ">>), Some(<<"n">>), Some(<<" ", "n">>)}

NoMemberInput == [server_id |-> "", user_id |-> "", nickname |-> None]

\* str::trim
RECURSIVE trim_start(_)
trim_start(str) ==
    IF str # <<>> /\ Head(str) = " " THEN trim_start(Tail(str)) ELSE str

RECURSIVE trim_end(_)
trim_end(str) ==
    IF str # <<>> /\ str[Len(str)] = " "
    THEN trim_end(SubSeq(str, 1, Len(str) - 1))
    ELSE str

trim(str) == trim_end(trim_start(str))

is_empty(str) == Len(str) = 0

\* MockServerRepository::find_by_id, as is_some()
find_by_id(srv, id) == id \in DOMAIN srv

\* MockMemberRepository::find_by_server_and_user, as is_some()
find_by_server_and_user(ms, server_id, user_id) ==
    \E i \in DOMAIN ms : ms[i].server_id = server_id /\ ms[i].user_id = user_id

\* MockMemberRepository::insert
insert(ms, input) == Append(ms, input)

MemberReturn(t, r) ==
    /\ mpc' = [mpc EXCEPT ![t] = "idle"]
    /\ minput' = [minput EXCEPT ![t] = NoMemberInput]
    /\ mres' = [mres EXCEPT ![t] = r]

\* MockServerRepository::insert, `id` being the Uuid::new_v4() it draws
MockServerRepository_insert(srv, id, input) ==
    [x \in DOMAIN srv \cup {id} |-> IF x = id THEN input ELSE srv[x]]

\* MockServerRepository::insert
insert_server(id) ==
    /\ id \notin DOMAIN mock_servers
    /\ mock_servers' = MockServerRepository_insert(mock_servers, id,
                            [name |-> <<"n">>, description |-> None])
    /\ UNCHANGED <<outboxVars, pubVars, friendVars, extraVars, mock_members, mpc, minput, mres>>

\* create_member: look the server up
create_member_find_server(t, input) ==
    /\ mpc[t] = "idle"
    /\ IF find_by_id(mock_servers, input.server_id)
       THEN /\ mpc' = [mpc EXCEPT ![t] = "server_found"]
            /\ minput' = [minput EXCEPT ![t] = input]
            /\ mres' = [mres EXCEPT ![t] = "none"]
       ELSE MemberReturn(t, "ServerNotFound")
    /\ UNCHANGED <<outboxVars, pubVars, friendVars, extraVars, mock_servers, mock_members>>

\* create_member: look the member up
create_member_find_member(t) ==
    /\ mpc[t] = "server_found"
    /\ IF find_by_server_and_user(mock_members, minput[t].server_id, minput[t].user_id)
       THEN MemberReturn(t, "MemberAlreadyExists")
       ELSE /\ mpc' = [mpc EXCEPT ![t] = "not_member"]
            /\ UNCHANGED <<minput, mres>>
    /\ UNCHANGED <<outboxVars, pubVars, friendVars, extraVars, mock_servers, mock_members>>

\* create_member: validate the nickname and insert
create_member_insert(t) ==
    /\ mpc[t] = "not_member"
    /\ IF minput[t].nickname.some /\ is_empty(trim(minput[t].nickname.v))
       THEN /\ MemberReturn(t, "InvalidMemberNickname")
            /\ UNCHANGED mock_members
       ELSE /\ mock_members' = insert(mock_members, minput[t])
            /\ MemberReturn(t, "Ok")
    /\ UNCHANGED <<outboxVars, pubVars, friendVars, extraVars, mock_servers>>

\* ---------------------------------------------------------------- servers
\* ServerService::create_server, update_server and delete_server over
\* MockServerRepository, one call after another.

ServerNames == {<<>>, <<" ">>, <<" ", " ">>, <<"n">>, <<"m">>, <<" ", "m">>}
Descriptions == {<<"d">>}

NoServerCall == [op |-> "none", id |-> "", name |-> None, res |-> "none"]

name_is_blank_notrim(name) == is_empty(name)

\* name.trim().is_empty()
name_is_blank(name) == is_empty(trim(name))

\* MockServerRepository::update
MockServerRepository_update(srv, input) ==
    [srv EXCEPT ![input.id] =
        [name        |-> IF input.name.some THEN input.name.v ELSE @.name,
         description |-> IF input.description.some
                         THEN Some(input.description.v) ELSE @.description]]

\* MockServerRepository::delete
MockServerRepository_delete(srv, id) == [x \in DOMAIN srv \ {id} |-> srv[x]]

ServerReturn(op, id, name, r) ==
    /\ lastServer' = [op |-> op, id |-> id, name |-> name, res |-> r]
    /\ UNCHANGED <<outboxVars, pubVars, friendVars, pageVars, repoVars,
                   mock_members, mpc, minput, mres>>

\* ServerService::create_server
create_server(id, input) ==
    /\ id \notin DOMAIN mock_servers
    /\ IF name_is_blank(input.name)
       THEN /\ UNCHANGED mock_servers
            /\ ServerReturn("create", id, Some(input.name), "InvalidServerName")
       ELSE /\ mock_servers' = MockServerRepository_insert(mock_servers, id, input)
            /\ ServerReturn("create", id, Some(input.name), "Ok")

\* ServerService::update_server
update_server(input) ==
    IF ~find_by_id(mock_servers, input.id)
    THEN /\ UNCHANGED mock_servers
         /\ ServerReturn("update", input.id, input.name, "ServerNotFound")
    ELSE IF input.name.some /\ name_is_blank(input.name.v)
    THEN /\ UNCHANGED mock_servers
         /\ ServerReturn("update", input.id, input.name, "InvalidServerName")
    ELSE /\ mock_servers' = MockServerRepository_update(mock_servers, input)
         /\ ServerReturn("update", input.id, input.name, "Ok")

\* ServerService::delete_server
delete_server(id) ==
    IF ~find_by_id(mock_servers, id)
    THEN /\ UNCHANGED mock_servers
         /\ ServerReturn("delete", id, None, "ServerNotFound")
    ELSE /\ mock_servers' = MockServerRepository_delete(mock_servers, id)
         /\ ServerReturn("delete", id, None, "Ok")

\* ----------------------------------------------------------- pagination
\* PostgresServerRepository::list: LIMIT min(limit, 50) OFFSET (page - 1) * limit
\* over the public servers, newest first. MongoMessageRepository::
\* pagination_options computes skip and limit the same way.

Skip(q, n) == SubSeq(q, n + 1, Len(q))

Take(q, n) == SubSeq(q, 1, Min(n, Len(q)))

PostgresServerRepository_list(rows, page, limit) ==
    LET offset == (page - 1) * limit
        lim    == Min(limit, PageCap)
    IN  [items |-> Take(Skip(rows, offset), lim), total |-> Len(rows)]

\* a public server is inserted while no listing is in progress; it is the
\* newest row
catalog_insert ==
    /\ llimit = 0
    /\ Len(catalog) < MaxItems
    /\ catalog' = <<Len(catalog) + 1>> \o catalog
    /\ UNCHANGED <<notPage, llimit, lpages>>

\* a client starts to list the servers page by page with a limit of its choice
list_begin(limit) ==
    /\ llimit = 0
    /\ llimit' = limit
    /\ lpages' = <<>>
    /\ UNCHANGED <<notPage, catalog>>

\* the client reads the next page
list_page ==
    /\ llimit > 0
    /\ Len(lpages) < MaxPages
    /\ lpages' = Append(lpages,
                        PostgresServerRepository_list(catalog, Len(lpages) + 1, llimit))
    /\ UNCHANGED <<notPage, catalog, llimit>>

\* the client is done
list_end ==
    /\ llimit > 0
    /\ llimit' = 0
    /\ lpages' = <<>>
    /\ UNCHANGED <<notPage, catalog>>

Init ==
    /\ servers = {}
    /\ members = {}
    /\ pg_outbox = <<>>
    /\ messages = <<>>
    /\ mongo_outbox = <<>>
    /\ uuids = 0
    /\ clock = 1
    /\ lastCall = NoCall
    /\ committed = {}
    /\ rolledBack = {}
    /\ proc = "down"
    /\ chan = "none"
    /\ brokerUp = TRUE
    /\ batch = <<>>
    /\ polled = {}
    /\ attempted = {}
    /\ published = [i \in EventIds |-> 0]
    /\ faults = 0
    /\ connection = 0
    /\ channel = 0
    /\ live = {}
    /\ dialled = 0
    /\ cpc = "idle"
    /\ conn = 0
    /\ cres = "none"
    /\ ppc = "idle"
    /\ channel_guard = 0
    /\ kpc = "idle"
    /\ taken = 0
    /\ kres = "none"
    /\ kover = FALSE
    /\ friend_requests = <<>>
    /\ friends = <<>>
    /\ lastFriend = NoFriendCall
    /\ mock_servers = <<>>
    /\ mock_members = <<>>
    /\ mpc = [t \in MemberTasks |-> "idle"]
    /\ minput = [t \in MemberTasks |-> NoMemberInput]
    /\ mres = [t \in MemberTasks |-> "none"]
    /\ catalog = <<>>
    /\ llimit = 0
    /\ lpages = <<>>
    /\ lastServer = NoServerCall
    /\ wire = [i \in EventIds |-> {}]
    /\ lost = {}
    /\ rpc = [t \in RepoTasks |-> "idle"]
    /\ rin = [t \in RepoTasks |-> ""]
    /\ rupdated = [t \in RepoTasks |-> FALSE]
    /\ rres = [t \in RepoTasks |-> NoRepoCall]
    /\ removed = [m \in Messages |-> 0]

PgCalls ==
    \/ \E s \in Servers, f \in PgFailures : InsertServer(s, f)
    \/ \E s \in Servers, f \in PgFailures : DeleteServer(s, f)
    \/ \E mem \in Servers \X Users, f \in {"none", "statement"} : InsertMember(mem, f)
    \/ \E mem \in Servers \X Users, f \in PgFailures : DeleteMember(mem, f)
    \/ \E id \in EventIds, p \in Servers, f \in {"none", "outbox"} : RewritePg(id, p, f)

\* the calls of the message service, failing at one of the points in F
MongoCalls(F) ==
    \/ \E m \in Messages, c \in {"a", " "}, f \in F : CreateMessage(m, c, f)
    \/ \E m \in Messages, f \in F : UpdateMessage(m, "b", f)
    \/ \E m \in Messages, f \in F : DeleteMessage(m, f)
    \/ \E id \in EventIds, p \in Messages, f \in F \cap {"none", "repo_outbox"} :
           RewriteMongo(id, p, f)

\* the calls that store new records in the outbox collection
NewRecords(F) ==
    \/ \E m \in Messages, f \in F : CreateMessage(m, "a", f)
    \/ \E m \in Messages, f \in F : UpdateMessage(m, "b", f)

\* the calls that reach the outbox collection, as the relay sees them: create
\* and update write new records, and the writer runs again for the first record
WriterCalls ==
    \/ NewRecords({"none", "svc_outbox"})
    \/ \E p \in Messages : RewriteMongo(1, p, "none")

Environment ==
    \/ Tick
    \/ Start
    \/ Crash
    \/ BrokerDown
    \/ BrokerRecover

\* the relay with storage errors and publishes that fail
Relay ==
    \/ Poll(BOOLEAN)
    \/ CursorError
    \/ ProcessSingle({"ok", "error", "stopped"}, {"none", "err"})

\* the relay when storage answers and an open channel to a reachable broker
\* accepts every publish
RelayHealthy ==
    \/ Poll({TRUE})
    \/ ProcessSingle({"ok"}, {"none"})

\* the relay, the broker and the calls that fill the outbox collection
Next == WriterCalls \/ Environment \/ Relay

Spec == Init /\ [][Next]_vars

\* the message service with every failure point, beside the broker
NextMsg == MongoCalls(MongoFailures) \/ Environment

SpecMsg == Init /\ [][NextMsg]_vars

\* the Postgres repositories and their outbox table, beside the broker
NextPg == PgCalls \/ Environment

SpecPg == Init /\ [][NextPg]_vars

\* the relay loop runs for ever: start() ticks every poll_interval and each
\* await of a poll returns; a stopped process is started again
NextFair == NewRecords({"none"}) \/ Environment \/ RelayHealthy

FairSpec ==
    /\ Init
    /\ [][NextFair]_vars
    /\ WF_vars(RelayHealthy)
    /\ WF_vars(Start)

\* the relay loop of a process that is not stopped, with the storage and
\* broker errors a poll can meet
RelayErrors ==
    \/ Poll(BOOLEAN)
    \/ CursorError
    \/ ProcessSingle({"ok", "error"}, {"none", "err"})

NextLoop ==
    \/ NewRecords({"none"})
    \/ Tick
    \/ Start
    \/ BrokerDown
    \/ BrokerRecover
    \/ RelayErrors

LoopSpec ==
    /\ Init
    /\ [][NextLoop]_vars
    /\ WF_vars(RelayErrors)
    /\ WF_vars(Start)

\* the relay and the broker when storage answers: a publish is taken by the
\* broker, fails, or returns Ok for a message the broker did not take
NextAck ==
    \/ NewRecords({"none"})
    \/ Tick
    \/ Start
    \/ BrokerDown
    \/ BrokerRecover
    \/ Poll({TRUE})
    \/ ProcessSingle({"ok"}, {"none", "err", "unacked"})

AckSpec == Init /\ [][NextAck]_vars

\* one task calls connect() again and again while another calls
\* declare_exchange and publish on the shared publisher
NextConnect ==
    \/ connect_dial
    \/ connect_store_connection
    \/ connect_store_channel
    \/ \E op \in {"declare", "publish"} : publisher_read(op)
    \/ publisher_return
    \/ Disconnect
    \/ BrokerRecover

ConnectSpec == Init /\ [][NextConnect]_vars

\* the same tasks beside one that calls close()
NextClose ==
    \/ NextConnect
    \/ close_take
    \/ close_return

CloseSpec == Init /\ [][NextClose]_vars

\* the friend-request service called for two different users, one call at a
\* time
NextFriend ==
    \/ \E a, b \in FriendUsers : a # b /\ CreateFriendRequest(a, b)
    \/ \E a, b \in FriendUsers : a # b /\ AcceptFriendRequest(a, b)
    \/ \E a, b \in FriendUsers : a # b /\ DeclineFriendRequest(a, b)
    \/ \E a, b \in FriendUsers : a # b /\ DeleteFriendRequest(a, b)
    \/ \E a, b \in FriendUsers : a # b /\ DeleteFriend(a, b)

FriendSpec == Init /\ [][NextFriend]_vars

\* the friend service over PostgresFriendshipRepository, whose other statements
\* act on the rows as the mock's methods act on its lists
NextPgFriend ==
    \/ \E a, b \in FriendUsers : a # b /\ CreateFriendRequest(a, b)
    \/ \E a, b \in FriendUsers : a # b /\ PgAcceptFriendRequest(a, b)
    \/ \E a, b \in FriendUsers : a # b /\ DeclineFriendRequest(a, b)
    \/ \E a, b \in FriendUsers : a # b /\ DeleteFriendRequest(a, b)
    \/ \E a, b \in FriendUsers : a # b /\ DeleteFriend(a, b)

PgFriendSpec == Init /\ [][NextPgFriend]_vars

\* two tasks that call update and delete of MongoMessageRepository at will
NextRepo ==
    \/ \E m \in Messages : repo_insert(m)
    \/ \E t \in RepoTasks, m \in Messages : update_find(t, m)
    \/ \E t \in RepoTasks : update_find_one_and_update(t, "b")
    \/ \E t \in RepoTasks : update_write_outbox_event(t)
    \/ \E t \in RepoTasks, m \in Messages : delete_find(t, m)
    \/ \E t \in RepoTasks : delete_one(t)
    \/ \E t \in RepoTasks : delete_write_outbox_event(t)
    \/ Tick

RepoSpec == Init /\ [][NextRepo]_vars

\* the member service with two calls of create_member in flight
NextMember ==
    \/ \E id \in MemberServers : insert_server(id)
    \/ \E t \in MemberTasks, srv \in MemberServers, u \in Users, n \in Nicknames :
          create_member_find_server(t, [server_id |-> srv, user_id |-> u, nickname |-> n])
    \/ \E t \in MemberTasks : create_member_find_member(t)
    \/ \E t \in MemberTasks : create_member_insert(t)

MemberSpec == Init /\ [][NextMember]_vars

\* listings of a collection that does not change while it is listed
NextPage ==
    \/ catalog_insert
    \/ \E limit \in 1..MaxLimit : list_begin(limit)
    \/ list_page
    \/ list_end

PageSpec == Init /\ [][NextPage]_vars

\* the server service, its calls running one after another
NextServer ==
    \/ \E id \in MemberServers, n \in ServerNames, d \in {None} \cup {Some(x) : x \in Descriptions} :
          create_server(id, [name |-> n, description |-> d])
    \/ \E id \in MemberServers, n \in {None} \cup {Some(x) : x \in ServerNames},
          d \in {None} \cup {Some(x) : x \in Descriptions} :
          update_server([id |-> id, name |-> n, description |-> d])
    \/ \E id \in MemberServers : delete_server(id)

ServerSpec == Init /\ [][NextServer]_vars

\* the relay, its storage and broker working, over a collection that also
\* holds documents it cannot read
NextParse ==
    \/ \E m \in Messages : CreateMessage(m, "a", "none")
    \/ \E kind \in ForeignKinds : InsertForeign(kind)
    \/ Tick
    \/ Start
    \/ Poll({TRUE})
    \/ ProcessSingle({"ok"}, {"none"})

ParseSpec == Init /\ [][NextParse]_vars

\* ------------------------------------------------------------ the claims
CallStep == lastCall'.n # lastCall.n

IdsOf(q) == {q[i].id : i \in DOMAIN q}

StatusOf(id) == IF id \in DOMAIN mongo_outbox THEN mongo_outbox[id].status ELSE "ABSENT"

MessageOps == {"message.create", "message.update", "message.delete"}

\* C1: a Postgres transaction that called the writer and committed left its
\* outbox row, with status READY; one that rolled back left no row with that id
C1_Atomicity ==
    /\ \A id \in committed :
           id \in DOMAIN pg_outbox /\ pg_outbox[id].status = "READY"
    /\ \A id \in rolledBack : id \notin DOMAIN pg_outbox

\* a commit failed after the writer ran, beside a committed transaction
C1_Witness ==
    /\ committed # {}
    /\ rolledBack # {}
    /\ lastCall.fail = "commit"

\* C2: when the writer fails inside an event-emitting operation the caller gets
\* the error and the business mutation is not committed
C2_FailClosed ==
    [][(CallStep /\ lastCall'.op \in MessageOps
            /\ lastCall'.fail \in {"repo_outbox", "svc_outbox"})
          => (lastCall'.res # "Ok" /\ messages' = messages)]_vars

C4_OneRecordPerOperation ==
    (lastCall.res = "Ok" /\ lastCall.op \in MessageOps)
        => /\ Cardinality(lastCall.added) = 1
           /\ \A id \in lastCall.added :
                  /\ mongo_outbox[id].status = "READY"
                  /\ mongo_outbox[id].failed_at = Null

\* what a Postgres call needs, beside working storage, to succeed
PgPrecondition(c) ==
    CASE c.op = "server.create" -> c.target \notin servers
      [] c.op = "server.delete" -> c.target \in servers
      [] c.op = "member.create" -> <<"s1", c.target>> \notin members
      [] c.op = "member.delete" -> <<"s1", c.target>> \in members
      [] OTHER -> TRUE

\* C5: a business call leaves the publisher and the broker alone, and succeeds
\* exactly when its storage works and its row is there, whatever the broker's state
C5_WriteIndependentOfBroker ==
    [][CallStep
          => /\ UNCHANGED <<proc, chan, brokerUp, published, batch>>
             /\ (lastCall'.res = "Ok")
                    <=> (lastCall'.fail = "none" /\ PgPrecondition(lastCall'))]_vars

\* a member was deleted, with its event, while the broker was unreachable
C5_Witness ==
    /\ lastCall.op = "member.delete" /\ lastCall.res = "Ok"
    /\ lastCall.added # {}
    /\ ~brokerUp /\ chan = "dead"

\* C6: every status change of an outbox record is READY -> SENT or
\* READY -> FAILED; records are never removed
C6_StatusStateMachine ==
    [][\A id \in DOMAIN mongo_outbox :
          /\ id \in DOMAIN mongo_outbox'
          /\ mongo_outbox'[id].status # StatusOf(id)
                => /\ StatusOf(id) = "READY"
                   /\ mongo_outbox'[id].status \in {"SENT", "FAILED"}]_vars

\* one record was sent, another failed, and the writer ran again on one of them
C6_Witness ==
    /\ \E i, j \in DOMAIN mongo_outbox : StatusOf(i) = "SENT" /\ StatusOf(j) = "FAILED"
    /\ lastCall.op = "rewrite"

\* C7: a record with status SENT is in no cursor of the relay and is not
\* published again
C7_NoDoubleSend ==
    [][\A id \in DOMAIN mongo_outbox :
          StatusOf(id) = "SENT"
              => /\ published'[id] = published[id]
                 /\ id \notin IdsOf(batch')]_vars

\* a poll that follows a SENT record has just read other records to publish
C7_Witness ==
    /\ \E id \in DOMAIN mongo_outbox : StatusOf(id) = "SENT" /\ published[id] > 0
    /\ Len(batch) = BatchLimit

PollStep == batch = <<>> /\ batch' # <<>>

ReadyIds == {i \in DOMAIN mongo_outbox : StatusOf(i) = "READY"}

C9_EventualDelivery ==
    (<>[]brokerUp)
        => \A id \in EventIds :
               (id \in DOMAIN mongo_outbox) ~> (published[id] > 0)

\* C10: a record with status FAILED is in no cursor of the relay and is not
\* published
C10_FailedIsTerminal ==
    [][\A id \in DOMAIN mongo_outbox :
          StatusOf(id) = "FAILED"
              => /\ published'[id] = published[id]
                 /\ id \notin IdsOf(batch')
                 /\ mongo_outbox'[id].status = "FAILED"]_vars

\* over a healthy channel the relay has sent a record that is not older than a
\* FAILED one, which was never published
C10_Witness ==
    /\ brokerUp /\ chan = "open"
    /\ \E i, j \in DOMAIN mongo_outbox :
           /\ StatusOf(i) = "FAILED" /\ published[i] = 0
           /\ StatusOf(j) = "SENT" /\ published[j] > 0
           /\ mongo_outbox[i].created_at <= mongo_outbox[j].created_at

\* C11: during a poll every document of the cursor has been handed to
\* process_single_message or is still to be read, whatever the outcome of the
\* publish and of the status update of the documents before it
C11_FailureIsolation ==
    /\ polled = attempted \cup IdsOf(batch)
    /\ attempted \cap IdsOf(batch) = {}

\* the two records of one call were read by one poll without a storage error or
\* a stop of the process; the publish of the first failed and the second was
\* attempted and failed as well
C11_Witness ==
    /\ lastCall.n = 1 /\ faults = 0
    /\ DOMAIN mongo_outbox = {1, 2}
    /\ StatusOf(1) = "FAILED" /\ StatusOf(2) = "FAILED"
    /\ proc = "running" /\ batch = <<>>

\* C12: a cursor holds at most the limit of documents, in ascending created_at
\* order; a poll reads the READY records with the smallest created_at; and a
\* step of the relay changes no record but the one at the head of the cursor,
\* so the READY records beyond the limit stay READY and unpublished
C12_BatchBoundAndOrder ==
    /\ [][/\ Cardinality(polled') <= BatchLimit
          /\ \A i, j \in DOMAIN batch' :
                 i < j => batch'[i].created_at <= batch'[j].created_at]_vars
    /\ [][PollStep =>
             /\ polled' \subseteq ReadyIds
             /\ Cardinality(polled') = Min(BatchLimit, Cardinality(ReadyIds))
             /\ \A x \in ReadyIds \ polled', p \in polled' :
                    mongo_outbox[p].created_at <= mongo_outbox[x].created_at]_vars
    /\ [][\A id \in DOMAIN mongo_outbox :
             (batch = <<>> \/ Head(batch).id # id)
                 => /\ mongo_outbox'[id] = mongo_outbox[id]
                    /\ published'[id] = published[id]]_vars

\* a poll found more READY records than the limit: the cursor holds the limit,
\* has handed out its first document, and a record stored before one of the
\* cursor (ids are drawn in the order of the writes) is outside it and READY
C12_Witness ==
    /\ Cardinality(polled) = BatchLimit
    /\ attempted # {}
    /\ \E x \in ReadyIds \ polled, p \in polled : x < p

\* C13: no step makes start() return, and after an error of a poll (a failed
\* query, cursor read or status update, counted by faults) the running relay
\* opens a cursor again while records are READY
C13_RelayNeverStops ==
    /\ [][proc = "running" => proc' = "running"]_vars
    /\ (proc = "running" /\ faults > 0 /\ ReadyIds # {}) ~> (polled # {})

\* after an error ended a poll or failed a status update, a later poll has
\* opened a new cursor
C13_Witness ==
    /\ faults > 0
    /\ proc = "running"
    /\ polled # {} /\ attempted = {}

\* C14: a record with status SENT was published to the broker, which took the
\* message
C14_SentImpliesAck ==
    \A id \in DOMAIN mongo_outbox :
        StatusOf(id) = "SENT" => published[id] > 0

\* C15: when the relay handles a record while the broker is reachable and the
\* publisher is not connected, the publisher reconnects (ensure_connected) and
\* the record is published over the new channel
C15_ReconnectBeforePublish ==
    [][(/\ proc = "running" /\ batch # <<>>
        /\ brokerUp /\ ~is_connected(chan)
        /\ batch' = Tail(batch)
        /\ mongo_outbox' # mongo_outbox)
          => /\ chan' = ensure_connected(chan, brokerUp)
             /\ published'[Head(batch).id] = published[Head(batch).id] + 1
             /\ mongo_outbox'[Head(batch).id].status = "SENT"]_vars

\* C16: whenever connect() has returned Ok and is not running again, the
\* publisher holds a connection and the channel made on that connection,
\* however declare_exchange and publish interleave with it
C16_ConnectIdempotent ==
    (cpc = "idle" /\ cres = "ok")
        => (connection # 0 /\ channel = connection)

\* connect() has returned Ok again after a disconnect while a publish holds
\* the channel of the new connection
C16_Witness ==
    /\ cpc = "idle" /\ cres = "ok"
    /\ dialled >= 2 /\ connection = dialled
    /\ channel = connection
    /\ ppc = "publish" /\ channel_guard = channel

\* C17: when close() returns, the publisher holds neither a connection nor a
\* channel, and no publish that began before close() is still running
C17_CloseTearsDown ==
    [][(kpc = "closing" /\ kpc' = "idle")
          => (connection' = 0 /\ channel' = 0 /\ ~kover')]_vars

SameRequest(r, a, b) == r.user_id_requested = a /\ r.user_id_invited = b

\* C18: create_friend_request(A, B) fails with FriendRequestAlreadyExists when
\* a request A->B is stored and with FriendshipAlreadyExists when a request
\* B->A is stored, and leaves the store as it was; after every call at most one
\* request A->B is stored and never beside a request B->A
C18_FriendRequestUnique ==
    /\ [][\A a, b \in FriendUsers :
             (/\ lastFriend'.op = "create"
              /\ lastFriend'.requested = a /\ lastFriend'.invited = b
              /\ <<friend_requests, friends, lastFriend>>'
                     # <<friend_requests, friends, lastFriend>>)
                 => /\ get_request(friend_requests, b, a)
                        => /\ lastFriend'.res = "FriendshipAlreadyExists"
                           /\ UNCHANGED <<friend_requests, friends>>
                    /\ get_request(friend_requests, a, b)
                        => /\ lastFriend'.res = "FriendRequestAlreadyExists"
                           /\ UNCHANGED <<friend_requests, friends>>]_vars
    /\ [][\A i, j \in DOMAIN friend_requests' :
             /\ (i # j) =>
                    ~SameRequest(friend_requests'[i],
                                 friend_requests'[j].user_id_requested,
                                 friend_requests'[j].user_id_invited)
             /\ ~SameRequest(friend_requests'[i],
                             friend_requests'[j].user_id_invited,
                             friend_requests'[j].user_id_requested)]_vars

\* create_friend_request(ub, ua) was refused because the request ua->ub is
\* stored
C18_Witness ==
    /\ lastFriend = [op |-> "create", requested |-> "ub", invited |-> "ua",
                     res |-> "FriendshipAlreadyExists"]
    /\ Len(friend_requests) = 1
    /\ SameRequest(friend_requests[1], "ua", "ub")

\* C19: accept_friend_request(A, B) returns Ok only when a pending request
\* A->B is stored, and then that request is gone and the friendship (A, B) is
\* added; otherwise it returns FriendRequestNotFound or FriendshipAlreadyExists
\* and neither the requests nor the friendships change
C19_AcceptFriendRequest ==
    [][\A a, b \in FriendUsers :
          (/\ lastFriend'.op = "accept"
           /\ lastFriend'.requested = a /\ lastFriend'.invited = b
           /\ <<friend_requests, friends, lastFriend>>'
                  # <<friend_requests, friends, lastFriend>>)
              => IF lastFriend'.res = "Ok"
                 THEN /\ \E i \in DOMAIN friend_requests :
                            /\ SameRequest(friend_requests[i], a, b)
                            /\ friend_requests[i].status = 0
                      /\ ~get_request(friend_requests', a, b)
                      /\ friends' = Append(friends, [user_id_1 |-> a, user_id_2 |-> b])
                 ELSE /\ lastFriend'.res \in {"FriendRequestNotFound",
                                               "FriendshipAlreadyExists"}
                      /\ UNCHANGED <<friend_requests, friends>>]_vars

\* C20: create_member returns ServerNotFound when the server is not stored,
\* MemberAlreadyExists when (server_id, user_id) is stored and
\* InvalidMemberNickname when the nickname is empty or blank, and then adds no
\* member; at most one member is stored per (server_id, user_id)
C20_CreateMember ==
    /\ [][\A t \in MemberTasks :
             (mpc'[t] = "idle" /\ mres'[t] # mres[t] /\ mres'[t] # "Ok")
                 => /\ mres'[t] \in {"ServerNotFound", "MemberAlreadyExists",
                                     "InvalidMemberNickname"}
                    /\ mock_members' = mock_members]_vars
    /\ [][\A i, j \in DOMAIN mock_members' :
             (/\ mock_members'[i].server_id = mock_members'[j].server_id
              /\ mock_members'[i].user_id = mock_members'[j].user_id) => i = j]_vars

RECURSIVE Concat(_)
Concat(ps) == IF ps = <<>> THEN <<>> ELSE ps[1].items \o Concat(Tail(ps))

\* C21: the pages 1, 2, 3, ... of one listing are consecutive slices of the
\* ordered collection, each of at most limit rows, every page reports the count
\* of all rows, and once a page came back empty the pages read so far hold
\* every row exactly once
C21_PaginationPartitions ==
    llimit > 0 =>
        /\ \A k \in DOMAIN lpages :
              /\ Len(lpages[k].items) <= llimit
              /\ lpages[k].total = Len(catalog)
        /\ Concat(lpages) = SubSeq(catalog, 1, Len(Concat(lpages)))
        /\ (\E k \in DOMAIN lpages : lpages[k].items = <<>>)
              => Concat(lpages) = catalog

ServerCall(op) == lastServer' # lastServer /\ lastServer'.op = op

Blank(name) == \A i \in DOMAIN name : name[i] = " "

\* C22: create_server, and update_server when a name is supplied, return
\* InvalidServerName for an empty or blank name and leave the repository as it
\* was; update_server on an unknown id returns ServerNotFound, whatever the name
C22_ServerNameValidation ==
    [][/\ (ServerCall("create") /\ Blank(lastServer'.name.v))
            => /\ lastServer'.res = "InvalidServerName"
               /\ mock_servers' = mock_servers
       /\ (/\ ServerCall("update")
           /\ lastServer'.id \in DOMAIN mock_servers
           /\ lastServer'.name.some
           /\ Blank(lastServer'.name.v))
            => /\ lastServer'.res = "InvalidServerName"
               /\ mock_servers' = mock_servers
       /\ (ServerCall("update") /\ lastServer'.id \notin DOMAIN mock_servers)
            => /\ lastServer'.res = "ServerNotFound"
               /\ mock_servers' = mock_servers]_vars

\* update_server with a blank name and a new description was refused for a
\* stored server, which still has its name and no description
C22_Witness ==
    /\ lastServer = [op |-> "update", id |-> "s1", name |-> Some(<<" ", " ">>),
                     res |-> "InvalidServerName"]
    /\ "s1" \in DOMAIN mock_servers
    /\ mock_servers["s1"] = [name |-> <<"m">>, description |-> None]

\* C23: a record has failed_at set if and only if its status is FAILED; READY
\* and SENT records have failed_at null
C23_FailedAtIffFailed ==
    \A id \in DOMAIN mongo_outbox :
        (mongo_outbox[id].failed_at # Null) <=> (StatusOf(id) = "FAILED")

\* a FAILED record with failed_at set beside a SENT and a READY record
C23_Witness ==
    \E i, j, k \in DOMAIN mongo_outbox :
        /\ StatusOf(i) = "FAILED" /\ mongo_outbox[i].failed_at = clock
        /\ StatusOf(j) = "SENT" /\ mongo_outbox[j].failed_at = Null
        /\ StatusOf(k) = "READY" /\ mongo_outbox[k].failed_at = Null

\* the relay handled the record `id` in this step and went on to the next one
Handled(id) ==
    /\ batch # <<>> /\ Head(batch).id = id
    /\ batch' = Tail(batch)
    /\ proc' = "running" /\ faults' = faults

StoredArgs(id) ==
    [exchange |-> mongo_outbox[id].exchange_name,
     routing_key |-> mongo_outbox[id].routing_key,
     payload |-> mongo_outbox[id].payload]

Frozen(doc) ==
    [id |-> doc.id, exchange_name |-> doc.exchange_name,
     routing_key |-> doc.routing_key, payload |-> doc.payload,
     created_at |-> doc.created_at]

\* a step of the relay: no service call returned and the cursor, the counters
\* of the relay or the broker's log moved
RelayMoved ==
    /\ lastCall' = lastCall
    /\ <<batch, polled, attempted, published, faults, wire>>'
           # <<batch, polled, attempted, published, faults, wire>>

\* C25: no step removes an outbox record or alters its id, exchange, routing
\* key, payload or created_at; a step of the relay adds no record, leaves the
\* messages alone and changes at most the status and failed_at of the record it
\* is handling
C25_RelayFrame ==
    [][/\ DOMAIN mongo_outbox \subseteq DOMAIN mongo_outbox'
       /\ \A id \in DOMAIN mongo_outbox :
              Frozen(mongo_outbox'[id]) = Frozen(mongo_outbox[id])
       /\ RelayMoved
            => /\ DOMAIN mongo_outbox' = DOMAIN mongo_outbox
               /\ messages' = messages
               /\ pg_outbox' = pg_outbox
               /\ \A id \in DOMAIN mongo_outbox :
                      mongo_outbox'[id] # mongo_outbox[id]
                          => batch # <<>> /\ Head(batch).id = id]_vars

\* the relay has set one record SENT and one FAILED a tick after it was
\* written, and all four records are stored
C25_Witness ==
    /\ DOMAIN mongo_outbox = EventIds
    /\ \E i, j \in DOMAIN mongo_outbox :
          /\ StatusOf(i) = "SENT"
          /\ StatusOf(j) = "FAILED"
          /\ mongo_outbox[j].failed_at > mongo_outbox[j].created_at

\* C26: a poll opens its cursor only when the previous cursor has been read to
\* its end, however many ticks that took, so no record is in the cursor twice
\* or again after it was handled
C26_SequentialPolls ==
    /\ [][(polled' # {} /\ (polled' # polled \/ Len(batch') > Len(batch)))
             => batch = <<>> /\ polled = {} /\ attempted = {}]_vars
    /\ [](/\ \A i, j \in DOMAIN batch : batch[i].id = batch[j].id => i = j
          /\ attempted \cap IdsOf(batch) = {}
          /\ IdsOf(batch) \subseteq polled)

\* the batch is still being processed a tick after its first record was set
\* FAILED, and READY records outside the cursor wait for the next poll
C26_Witness ==
    /\ batch # <<>>
    /\ \E id \in attempted :
          StatusOf(id) = "FAILED" /\ mongo_outbox[id].failed_at < clock
    /\ ReadyIds \ polled # {}

\* C27: the broker received a record more than once only if an update to SENT
\* was lost after a publish it took (the update failed or the process stopped
\* before it); such a record is READY until it is handled again and is not
\* SENT without another publish
C27_AtMostOnceUnlessLost ==
    /\ \A id \in EventIds : published[id] > 1 => id \in lost
    /\ \A id \in lost :
          /\ published[id] >= 1
          /\ published[id] = 1 => StatusOf(id) \in {"READY", "FAILED"}

\* the update to SENT of a record was lost, a later poll published the record
\* again and set it SENT
C27_Witness ==
    \E id \in lost : published[id] = 2 /\ StatusOf(id) = "SENT"

Unreadable(doc) ==
    \/ doc.id < 0
    \/ Missing \in {doc.exchange_name, doc.routing_key, doc.payload}

C29_FriendshipUnique ==
    \A i, j \in DOMAIN friends :
        {friends[i].user_id_1, friends[i].user_id_2}
            = {friends[j].user_id_1, friends[j].user_id_2} => i = j

\* the records with routing key `key` the outbox holds for message m
RecordsFor(key, m) ==
    {i \in DOMAIN mongo_outbox :
        mongo_outbox[i].routing_key = key /\ mongo_outbox[i].payload = m}

\* a call that returned MessageNotFound wrote no record
NotFoundWritesNothing ==
    \A t \in RepoTasks : rres[t].res = "MessageNotFound" => rres[t].wrote = {}

\* once no delete is between delete_one and the writer, the outbox holds one
\* message.deleted record for each document delete_one removed
OneRecordPerDeletion ==
    (\A t \in RepoTasks : rpc[t] # "del_write")
        => \A m \in Messages : Cardinality(RecordsFor("message.deleted", m)) = removed[m]

\* C30: update and delete of MongoMessageRepository write a record only for a
\* mutation that took place: a call that returns MessageNotFound wrote no
\* message.updated or message.deleted record, and each deletion of a message
\* has exactly one message.deleted record
C30_EventOnlyForMutation == NotFoundWritesNothing /\ OneRecordPerDeletion

====
